---- MODULE Spec2Model ----
(***************************************************************************)
(* async-local-storage (src/src/async-local-storage.js): a promise-       *)
(* returning key/value facade over IndexedDB.  Every public call goes      *)
(* through backlog.add, which chains the work onto backlog.tail; the work  *)
(* waits for open(), then processItem acquires the cached transaction (or  *)
(* opens a new one) and places one engine request.                         *)
(*                                                                         *)
(* The model has the program's variables (db, trans, store, openCalled,    *)
(* openPromise, backlog.tail and the per-call promises) and, as the        *)
(* environment, the IndexedDB engine (the open request, transactions with  *)
(* their complete/abort events, requests with their success/error events), *)
(* the timer of setTimeout and the promise job queue.                      *)
(***************************************************************************)
EXTENDS Integers, Sequences, FiniteSets, TLC

\* ------------------------------------------------------------------ bounds
\* Number of public calls (has/get/set/delete/clear/count/forEach) made.
MaxOps == 2
\* Number of engine requests the engine answers with an error event.
MaxFail == 1

\* Keys and values the callers use; 0 stands for "no entry" in the store.
\* A database that existed before the page started holds the value 2 under
\* every key (FullStore), a new one is empty.
Keys == {1, 2}
Values == {1}

VARIABLES
  isFF,         \* line 188: the user agent is Firefox
  provisioned,  \* engine: the database already has the object store
  disk,         \* engine: the object store's contents seen by requests
  disk0,        \* the object store's contents when the page started
  openCalled,   \* line 298
  openRequest,  \* engine: state of indexedDB.open's request (line 314)
  openPromise,  \* line 300
  db,           \* line 155
  queue,        \* the work items handed to backlog.add, in call order
  phase,        \* where each work item's runNext stands
  f,            \* line 163: the promise processItem settles, per item
  handle,       \* line 178: the promise backlog.add returned (= backlog.tail then)
  timer,        \* line 172: the setTimeout of each isolated item
  request,      \* line 232: the engine request of each item
  visited,      \* the keys the forEach callback of each item was invoked with
  trans,        \* line 182
  store,        \* line 183
  nextTx,       \* engine: number of transactions db.transaction has created
  txState,      \* engine: "none", "live" or "finished" per transaction
  txBase,       \* engine: contents a live transaction rolls back to on abort
  txEvent,      \* engine: the complete/abort event not yet delivered
  active,       \* engine: the transaction that accepts requests in the running task
  began,        \* the items in the order processItem was entered
  fails,        \* number of error events the engine has produced
  opens,        \* number of calls of indexedDB.open (line 314)
  calls,        \* per item, how the caller's forEach callback was invoked
  yielded       \* a timer has fired since the last item's primitive completed

vars == <<isFF, provisioned, disk, disk0, openCalled, openRequest, openPromise,
          db, queue, phase, f, handle, timer, request, visited, trans, store,
          nextTx, txState, txBase, txEvent, active, began, fails, opens,
          calls, yielded>>

\* ------------------------------------------------------------------ values
\* Every value a promise can carry is a pair <<kind, number>>.
Undefined == <<"undefined", 0>>
StoredValue(n) == IF n = 0 THEN Undefined ELSE <<"value", n>>
KeyResult(k) == <<"key", k>>
IntResult(n) == <<"int", n>>
BoolResult(b) == <<"bool", IF b THEN 1 ELSE 0>>
\* The error event of a failed request (request.onerror's argument).
RequestError == <<"error", 1>>
\* TransactionInactiveError: a request placed on a transaction that is not active.
InactiveError == <<"error", 2>>
\* What the caller's forEach callback throws.
VisitError == <<"error", 3>>
\* The error event of a failed indexedDB.open.
OpenError == <<"error", 4>>
\* The success event of indexedDB.open (openResolver.resolve(e)).
OpenEvent == <<"event", 0>>

Pending == [st |-> "pending", val |-> <<"none", 0>>]
Fulfilled(v) == [st |-> "fulfilled", val |-> v]
Rejected(v) == [st |-> "rejected", val |-> v]

\* ------------------------------------------------------------------ work items
Item(op, k, v, n) == [operation |-> op, key |-> k, value |-> v, throwAt |-> n]

\* The work items the public methods build (lines 345-386).  A forEach item
\* carries the number of the invocation at which the caller's callback throws
\* (0: it never throws).
Items ==
  {Item("get", k, 0, 0) : k \in Keys} \cup
  {Item("set", k, v, 0) : k \in Keys, v \in Values} \cup
  {Item("delete", k, 0, 0) : k \in Keys} \cup
  {Item("clear", 0, 0, 0), Item("count", 0, 0, 0)} \cup
  {Item("has", k, 0, 0) : k \in Keys} \cup
  {Item("forEach", 0, 0, n) : n \in 0..Cardinality(Keys)}

\* storage.forEach is the only method that passes canFail = true (line 385).
canFail(item) == item.operation = "forEach"

identity(v) == v

\* storage.has's transform (line 351): !!value
hasTransform(v) == BoolResult(v # IntResult(0) /\ v # Undefined)

\* line 192: item.transform || identity
xform(item, v) == IF item.operation = "has" THEN hasTransform(v) ELSE identity(v)

\* Mutant of reject: the transform is applied to the failure reason as well.
rejectTransformed(item, reason) == Rejected(xform(item, reason))

\* processItem's reject (line 237): resolver.reject(reason), what f settles
\* with when the primitive fails; the transform is not involved.
reject(item, reason) == Rejected(reason)

EmptyStore == [k \in Keys |-> 0]
FullStore == [k \in Keys |-> 2]
KeysOf(c) == {k \in Keys : c[k] # 0}

\* The engine's answer to the request processItem places for an isolated item
\* (lines 240-257): the request's result and the store's contents after it.
primitive(item, c) ==
  CASE item.operation = "get" ->
         [result |-> StoredValue(c[item.key]), contents |-> c]
    [] item.operation = "set" ->
         [result |-> KeyResult(item.key),
          contents |-> [c EXCEPT ![item.key] = item.value]]
    [] item.operation = "delete" ->
         [result |-> Undefined, contents |-> [c EXCEPT ![item.key] = 0]]
    [] item.operation = "clear" ->
         [result |-> Undefined, contents |-> EmptyStore]
    [] item.operation = "has" ->
         [result |-> IntResult(IF c[item.key] # 0 THEN 1 ELSE 0), contents |-> c]
    [] item.operation = "count" ->
         [result |-> IntResult(Cardinality(KeysOf(c))), contents |-> c]

\* ------------------------------------------------------------------ Init
Init ==
  /\ isFF \in BOOLEAN
  /\ provisioned \in BOOLEAN
  /\ disk = IF provisioned THEN FullStore ELSE EmptyStore
  /\ disk0 = disk
  /\ openCalled = FALSE
  /\ openRequest = "none"
  /\ openPromise = Pending
  /\ db = 0
  /\ queue = <<>>
  /\ phase = <<>>
  /\ f = <<>>
  /\ handle = <<>>
  /\ timer = <<>>
  /\ request = <<>>
  /\ visited = <<>>
  /\ trans = 0
  /\ store = 0
  /\ nextTx = 0
  /\ txState = [t \in 1..MaxOps |-> "none"]
  /\ txBase = [t \in 1..MaxOps |-> EmptyStore]
  /\ txEvent = [t \in 1..MaxOps |-> "none"]
  /\ active = 0
  /\ began = <<>>
  /\ fails = 0
  /\ opens = 0
  /\ calls = <<>>
  /\ yielded = FALSE

NoRequest == [st |-> "none", tx |-> 0, cursor |-> 0]

\* ------------------------------------------------------------------ backlog.add
\* A public method is called: backlog.add(workItem, canFail) (lines 158-179)
\* chains runNext onto the current tail and makes the result the new tail,
\* which is also the promise the caller gets.
Submit(item) ==
  /\ Len(queue) < MaxOps
  /\ queue' = Append(queue, item)
  /\ phase' = Append(phase, "queued")
  /\ f' = Append(f, Pending)
  /\ handle' = Append(handle, Pending)
  /\ timer' = Append(timer, "none")
  /\ request' = Append(request, NoRequest)
  /\ visited' = Append(visited, <<>>)
  /\ calls' = Append(calls, <<>>)
  /\ UNCHANGED <<opens, yielded>>
  /\ UNCHANGED <<isFF, provisioned, disk, disk0, openCalled, openRequest,
                 openPromise, db, trans, store, nextTx, txState, txBase,
                 txEvent, active, began, fails>>

\* The tail a work item was chained onto: the initial, fulfilled backlog.tail
\* (line 157) for the first item, the previous item's promise otherwise.
tailBefore(i) == IF i = 1 THEN Fulfilled(Undefined) ELSE handle[i - 1]

\* Mutant of tailReady: runNext is called at once instead of being chained.
tailReadyUnchained(t) == TRUE

\* Mutant of tailReady: t.then(runNext), with no rejection handler.
tailReadyOnFulfil(t) == t.st = "fulfilled"

\* line 178: t.then(runNext, runNext) runs runNext once t is settled either way.
tailReady(t) == t.st # "pending"

\* Mutant of open: the openCalled guard of line 302 is missing.
openUnguarded(called) == TRUE

\* open() (lines 301-331): whether this call places the engine's open request;
\* only the first call does (line 302).
open(called) == ~called

\* runNext (line 162) calls open() and waits on openPromise.
RunNext(i) ==
  /\ i \in 1..Len(queue)
  /\ phase[i] = "queued"
  /\ tailReady(tailBefore(i))
  /\ phase' = [phase EXCEPT ![i] = "opening"]
  /\ openCalled' = TRUE
  /\ openRequest' = IF open(openCalled) THEN "pending" ELSE openRequest
  /\ opens' = IF open(openCalled) THEN opens + 1 ELSE opens
  /\ UNCHANGED <<calls, yielded>>
  /\ UNCHANGED <<isFF, provisioned, disk, disk0, openPromise, db, queue, f,
                 handle, timer, request, visited, trans, store, nextTx,
                 txState, txBase, txEvent, active, began, fails>>

\* Mutant of openRequestHandler: onupgradeneeded resolves the open promise
\* instead of creating the object store.
openRequestHandlerResolveEarly(name) ==
  CASE name = "upgradeneeded" -> "resolve"
    [] name = "success" -> "resolve"
    [] name = "failure" -> "reject"
    [] OTHER -> "none"

\* The handlers open() registers on the open request (lines 318-329), by the
\* name each is registered under.
openRequestHandler(name) ==
  CASE name = "upgradeneeded" -> "createObjectStore"
    [] name = "success" -> "resolve"
    [] name = "failure" -> "reject"
    [] OTHER -> "none"

\* The engine fires an event on the open request: upgradeneeded when the
\* database has no object store yet, then success; or error.
OpenRequestEvent(name) ==
  /\ openRequest = "pending"
  /\ active = 0
  /\ \/ name = "upgradeneeded" /\ ~provisioned
     \/ name = "success" /\ provisioned
     \/ name = "error"
  /\ LET h == openRequestHandler(name) IN
       /\ db' = IF h \in {"createObjectStore", "resolve"} THEN 1 ELSE db
       /\ provisioned' = (provisioned \/ h = "createObjectStore")
       /\ openPromise' = CASE h = "resolve" -> Fulfilled(OpenEvent)
                           [] h = "reject" -> Rejected(OpenError)
                           [] OTHER -> openPromise
  /\ openRequest' = CASE name = "success" -> "success"
                      [] name = "error" -> "error"
                      [] OTHER -> openRequest
  /\ UNCHANGED <<isFF, disk, disk0, openCalled, queue, phase, f, handle, timer,
                 request, visited, trans, store, nextTx, txState, txBase,
                 txEvent, active, began, fails, opens, calls, yielded>>

\* ------------------------------------------------------------------ processItem
\* Lines 201-209: in Firefox a cached transaction is probed with store.count(),
\* which throws when the transaction is not active; the cache is then cleared.
\* (On an active transaction the probe places a count request nobody listens
\* to; it changes nothing the program reads.)  The result is the cached
\* transaction after the probe, 0 for none.
probed(ff, tr, st, act) ==
  IF ff /\ tr # 0 /\ st # 0 /\ act # tr THEN 0 ELSE tr

\* processItem (lines 190-296) for item i, entered from runNext's continuation
\* of open() (lines 162-165).  The session is acquired (lines 201-228) and the
\* request placed (lines 239-280); placing it on a cached transaction that is
\* not active throws, which the Promise constructor of line 163 turns into a
\* rejection of f.  An isolated item then starts its timer (lines 170-175).
processItem(i) ==
  LET item == queue[i]
      cached == probed(isFF, trans, store, active)
      fresh == cached = 0
      tx == IF fresh THEN nextTx + 1 ELSE cached
      usable == fresh \/ active = cached
  IN
  /\ began' = Append(began, i)
  /\ trans' = tx
  /\ store' = tx
  /\ nextTx' = IF fresh THEN tx ELSE nextTx
  /\ txState' = IF fresh THEN [txState EXCEPT ![tx] = "live"] ELSE txState
  /\ txBase' = IF fresh THEN [txBase EXCEPT ![tx] = disk] ELSE txBase
  /\ active' = IF fresh THEN tx ELSE active
  /\ request' = IF usable
                  THEN [request EXCEPT ![i] = [st |-> "pending", tx |-> tx, cursor |-> 0]]
                  ELSE request
  /\ f' = IF usable THEN f ELSE [f EXCEPT ![i] = Rejected(InactiveError)]
  /\ timer' = IF canFail(item) THEN timer ELSE [timer EXCEPT ![i] = "set"]
  /\ phase' = [phase EXCEPT ![i] = "running"]
  /\ yielded' = FALSE
  /\ UNCHANGED <<handle, visited, disk, txEvent>>

\* runNext's continuation of open() (line 162): open().then(function() {...})
\* has no rejection handler, so a rejected openPromise rejects runNext's
\* result, and with it the tail, without entering processItem.
OpenThen(i) ==
  /\ i \in 1..Len(queue)
  /\ phase[i] = "opening"
  /\ openPromise.st # "pending"
  /\ IF openPromise.st = "fulfilled"
       THEN processItem(i)
       ELSE /\ handle' = [handle EXCEPT ![i] = Rejected(openPromise.val)]
            /\ phase' = [phase EXCEPT ![i] = "done"]
            /\ UNCHANGED <<began, trans, store, nextTx, txState, txBase, active,
                           request, f, timer, visited, disk, txEvent, yielded>>
  /\ UNCHANGED <<isFF, provisioned, disk0, openCalled, openRequest, openPromise,
                 db, queue, fails, opens, calls>>

\* setTimeout's callback (lines 172-174) runs: f.then(a, a) is registered.
TimerFire(i) ==
  /\ i \in 1..Len(queue)
  /\ timer[i] = "set"
  /\ active = 0
  /\ timer' = [timer EXCEPT ![i] = "fired"]
  /\ yielded' = (f[i].st # "pending")
  /\ UNCHANGED <<opens, calls>>
  /\ UNCHANGED <<isFF, provisioned, disk, disk0, openCalled, openRequest,
                 openPromise, db, queue, phase, f, handle, request, visited,
                 trans, store, nextTx, txState, txBase, txEvent, active, began,
                 fails>>

\* The smallest key after cur that has an entry, 0 when there is none: the
\* record the cursor of store.openCursor() (line 261) stands on next.
nextEntry(c, cur) ==
  IF \E k \in KeysOf(c) : k > cur
    THEN CHOOSE k \in KeysOf(c) : k > cur /\ \A j \in KeysOf(c) : j > cur => k <= j
    ELSE 0

\* Mutant of afterVisit: the return after reject(e) is missing.
afterVisitNoReturn(threw) == "continue"

\* Lines 266-272: after the callback, the cursor advances unless it threw.
afterVisit(threw) == IF threw THEN "stop" ELSE "continue"

\* The scope a forEach call passes (line 384): every forEach of the model is
\* called with the same scope object.
ScopeObject == <<"object", 1>>
scopeOf(item) == IF item.operation = "forEach" THEN ScopeObject ELSE Undefined

\* storage.forEach's wrapper (lines 381-383) calls the caller's callback as a
\* plain function, callback(key, value, storage), with the two arguments it
\* received in the order it received them: in strict mode (line 5) the
\* callback's receiver is undefined, whatever the wrapper's own receiver is.
wrapperCall(receiver, first, second) ==
  [this |-> Undefined, args |-> <<first, second>>]

\* Line 267: item.callback.call(item.scope || null, cursor.value, cursor.key);
\* item.callback is the wrapper.  The result is how the caller's own callback
\* ends up being invoked.
cursorCall(scope, value, key) == wrapperCall(scope, value, key)

\* The engine fires the success event of item i's request.  For an isolated
\* item the default handler (lines 286-288) resolves f with the transformed
\* result; for forEach the cursor handler (lines 262-277) invokes the callback
\* on the cursor's record and continues, or resolves at the end.
RequestSuccess(i) ==
  /\ i \in 1..Len(queue)
  /\ request[i].st = "pending"
  /\ active = 0
  /\ txState[request[i].tx] = "live"
  /\ LET item == queue[i]
         k == nextEntry(disk, request[i].cursor)
         threw == item.throwAt = Len(visited[i]) + 1
     IN
     IF item.operation = "forEach"
       THEN /\ disk' = disk
            /\ IF k # 0
                 THEN /\ visited' = [visited EXCEPT ![i] = Append(@, k)]
                      /\ calls' = [calls EXCEPT ![i] =
                                     Append(@, cursorCall(scopeOf(item), StoredValue(disk[k]), KeyResult(k)))]
                      /\ IF afterVisit(threw) = "stop"
                           THEN /\ f' = [f EXCEPT ![i] =
                                           IF threw THEN reject(item, VisitError) ELSE @]
                                /\ request' = [request EXCEPT ![i].st = "done"]
                           ELSE /\ f' = [f EXCEPT ![i] =
                                           IF threw THEN reject(item, VisitError) ELSE @]
                                /\ request' = [request EXCEPT ![i].cursor = k]
                 ELSE /\ visited' = visited
                      /\ calls' = calls
                      /\ f' = [f EXCEPT ![i] =
                                 IF @.st = "pending" THEN Fulfilled(xform(item, Undefined)) ELSE @]
                      /\ request' = [request EXCEPT ![i].st = "done"]
       ELSE /\ disk' = primitive(item, disk).contents
            /\ f' = [f EXCEPT ![i] = Fulfilled(xform(item, primitive(item, disk).result))]
            /\ request' = [request EXCEPT ![i].st = "done"]
            /\ visited' = visited
            /\ calls' = calls
  /\ active' = request[i].tx
  /\ yielded' = FALSE
  /\ opens' = opens
  /\ UNCHANGED <<isFF, provisioned, disk0, openCalled, openRequest, openPromise,
                 db, queue, phase, handle, timer, trans, store, nextTx, txState,
                 txBase, txEvent, began, fails>>

\* clearTrans (lines 184-186)
clearTrans(t) == 0

\* The engine fires the error event of item i's request: request.onerror
\* rejects f (lines 278, 289), the event bubbles to trans.onerror = clearTrans
\* (line 227) and, nothing having prevented its default, the engine aborts the
\* transaction, undoing what was written in it; the abort event follows.
RequestFailure(i) ==
  /\ i \in 1..Len(queue)
  /\ request[i].st = "pending"
  /\ active = 0
  /\ fails < MaxFail
  /\ txState[request[i].tx] = "live"
  /\ fails' = fails + 1
  /\ f' = [f EXCEPT ![i] = IF @.st = "pending" THEN reject(queue[i], RequestError) ELSE @]
  /\ request' = [request EXCEPT ![i].st = "done"]
  /\ trans' = clearTrans(trans)
  /\ store' = clearTrans(store)
  /\ disk' = txBase[request[i].tx]
  /\ txState' = [txState EXCEPT ![request[i].tx] = "finished"]
  /\ txBase' = [txBase EXCEPT ![request[i].tx] = EmptyStore]
  /\ txEvent' = [txEvent EXCEPT ![request[i].tx] = "abort"]
  /\ yielded' = FALSE
  /\ UNCHANGED <<opens, calls>>
  /\ UNCHANGED <<isFF, provisioned, disk0, openCalled, openRequest, openPromise,
                 db, queue, phase, handle, timer, visited, nextTx, active, began>>

\* Lines 166-175: what runNext's result, and so the tail and the caller's
\* promise, settles with.  A canFail item hands f itself on; otherwise r2 is
\* fulfilled with whatever f settled with (f.then(a, a), a = r2.fulfill).
chainResult(item, fv) == IF canFail(item) THEN fv ELSE Fulfilled(fv.val)

\* Mutant of chainReady: setTimeout(a, 1), so that r2 settles when the timer
\* fires, whether or not f has settled.
chainReadyOnTimer(item, fv, tm) ==
  IF canFail(item) THEN fv.st # "pending" ELSE tm = "fired"

\* Mutant of chainReady: f.then(a), so that r2 settles only when f is fulfilled.
chainReadyOnFulfil(item, fv, tm) ==
  /\ fv.st # "pending"
  /\ canFail(item) \/ (tm = "fired" /\ fv.st = "fulfilled")

\* Lines 166-175: when runNext's result settles: with f for a canFail item,
\* once the timer has registered f.then(a, a) and f has settled otherwise.
chainReady(item, fv, tm) ==
  /\ fv.st # "pending"
  /\ canFail(item) \/ tm = "fired"

\* The promise backlog.add returned for item i settles.
Settle(i) ==
  /\ i \in 1..Len(queue)
  /\ phase[i] = "running"
  /\ chainReady(queue[i], f[i], timer[i])
  /\ handle' = [handle EXCEPT ![i] = chainResult(queue[i], f[i])]
  /\ phase' = [phase EXCEPT ![i] = "done"]
  /\ UNCHANGED <<opens, calls, yielded>>
  /\ UNCHANGED <<isFF, provisioned, disk, disk0, openCalled, openRequest,
                 openPromise, db, queue, f, timer, request, visited, trans,
                 store, nextTx, txState, txBase, txEvent, active, began, fails>>

\* ------------------------------------------------------------------ engine
\* The running task returns to the event loop: no transaction is active.
EndTask ==
  /\ active # 0
  /\ active' = 0
  /\ UNCHANGED <<opens, calls, yielded>>
  /\ UNCHANGED <<isFF, provisioned, disk, disk0, openCalled, openRequest,
                 openPromise, db, queue, phase, f, handle, timer, request,
                 visited, trans, store, nextTx, txState, txBase, txEvent, began,
                 fails>>

\* A live transaction that is not active and has no request pending commits.
TxCommit(t) ==
  /\ t \in 1..nextTx
  /\ txState[t] = "live"
  /\ active # t
  /\ \A i \in 1..Len(queue) : ~(request[i].st = "pending" /\ request[i].tx = t)
  /\ txState' = [txState EXCEPT ![t] = "finished"]
  /\ txBase' = [txBase EXCEPT ![t] = EmptyStore]
  /\ txEvent' = [txEvent EXCEPT ![t] = "complete"]
  /\ UNCHANGED <<opens, calls, yielded>>
  /\ UNCHANGED <<isFF, provisioned, disk, disk0, openCalled, openRequest,
                 openPromise, db, queue, phase, f, handle, timer, request,
                 visited, trans, store, nextTx, active, began, fails>>

\* The engine delivers a transaction's complete or abort event: the handler
\* registered on every transaction (line 227) is clearTrans.
TxEventDelivered(t) ==
  /\ t \in 1..nextTx
  /\ txEvent[t] # "none"
  /\ active = 0
  /\ txEvent' = [txEvent EXCEPT ![t] = "none"]
  /\ trans' = clearTrans(trans)
  /\ store' = clearTrans(store)
  /\ UNCHANGED <<opens, calls, yielded>>
  /\ UNCHANGED <<isFF, provisioned, disk, disk0, openCalled, openRequest,
                 openPromise, db, queue, phase, f, handle, timer, request,
                 visited, nextTx, txState, txBase, active, began, fails>>

\* ------------------------------------------------------------------ Next
Run ==
  \/ \E i \in 1..MaxOps : RunNext(i)
  \/ \E name \in {"upgradeneeded", "success", "error"} : OpenRequestEvent(name)
  \/ \E i \in 1..MaxOps : OpenThen(i)
  \/ \E i \in 1..MaxOps : TimerFire(i)
  \/ \E i \in 1..MaxOps : RequestSuccess(i)
  \/ \E i \in 1..MaxOps : RequestFailure(i)
  \/ \E i \in 1..MaxOps : Settle(i)
  \/ EndTask
  \/ \E t \in 1..MaxOps : TxCommit(t)
  \/ \E t \in 1..MaxOps : TxEventDelivered(t)

Next ==
  \/ \E item \in Items : Submit(item)
  \/ Run

Spec == Init /\ [][Next]_vars

\* The event loop runs every task and promise job that is ready, and the
\* engine answers every request it has accepted.
FairSpec == Spec /\ WF_vars(Run)

\* ------------------------------------------------------------------ claims
HasBegun(i) == \E n \in 1..Len(began) : began[n] = i
LastBegun(i) == Len(began) > 0 /\ began[Len(began)] = i
Settled(i) == i <= Len(queue) /\ handle[i].st # "pending"
\* An isolated item whose primitive failed.
FailedIsolated(i) ==
  i <= Len(queue) /\ ~canFail(queue[i]) /\ f[i].st = "rejected"
\* A forEach whose callback threw.
RaisedForEach(i) ==
  i <= Len(queue) /\ canFail(queue[i]) /\ f[i] = Rejected(VisitError)

\* C1: processItem is entered for the work items in the order backlog.add
\* received them: the n-th entry into processItem is for the n-th item
\* submitted, so none is reordered or skipped.
C1_FifoOrder == \A n \in 1..Len(began) : began[n] = n

\* Two items have entered processItem: the first one's request has been
\* answered and the second one's is pending.
C1_Witness ==
  /\ Len(began) >= 2
  /\ request[1].st = "done"
  /\ request[2].st = "pending"

\* C3 (as claimed): when an isolated item's primitive failed, the promise its
\* caller holds is rejected with the failure.
C3_CallerHandleRejected ==
  \A i \in 1..Len(queue) :
    (FailedIsolated(i) /\ Settled(i)) => handle[i] = Rejected(f[i].val)

\* C6 (as claimed): once the engine has reported that the open failed, the
\* connection is Failed (openPromise is rejected with the open error) and no
\* operation's promise is fulfilled.
C6_OpenFailureRejectsAll ==
  openRequest = "error" =>
    /\ openPromise = Rejected(OpenError)
    /\ \A i \in 1..Len(queue) : handle[i].st # "fulfilled"

\* C7: a forEach that ran to the end has invoked the callback exactly once for
\* each entry of the store (until a later item begins, the store is as the
\* forEach found it), and its promise is then fulfilled; when the
\* callback throws on its k-th invocation the promise is rejected with what it
\* threw and the callback is never invoked a (k+1)-th time.
C7_ForEachVisits ==
  \A i \in 1..Len(queue) :
    queue[i].operation = "forEach" =>
      /\ (f[i].st = "fulfilled" /\ LastBegun(i)) =>
           /\ Len(visited[i]) = Cardinality(KeysOf(disk))
           /\ {visited[i][n] : n \in 1..Len(visited[i])} = KeysOf(disk)
      /\ (f[i].st = "fulfilled" /\ phase[i] = "done") => handle[i] = Fulfilled(Undefined)
      /\ queue[i].throwAt > 0 => Len(visited[i]) <= queue[i].throwAt
      /\ (queue[i].throwAt > 0 /\ Len(visited[i]) = queue[i].throwAt) =>
           /\ f[i] = Rejected(VisitError)
           /\ phase[i] = "done" => handle[i] = Rejected(VisitError)
      /\ handle[i].st = "fulfilled" => f[i].st = "fulfilled"

\* A forEach over two entries visited both and was fulfilled, and a second one
\* whose callback threw on the first of the two entries was rejected after
\* that single invocation.
C7_Witness ==
  /\ Len(queue) = 2
  /\ queue[1] = Item("forEach", 0, 0, 0)
  /\ queue[2] = Item("forEach", 0, 0, 1)
  /\ visited[1] = <<1, 2>>
  /\ handle[1] = Fulfilled(Undefined)
  /\ visited[2] = <<1>>
  /\ handle[2] = Rejected(VisitError)
  /\ txState[request[2].tx] = "finished"

\* The store a sequential map holds after the first n submitted items have
\* been applied to the initial contents one by one.
RECURSIVE SeqStore(_)
SeqStore(n) ==
  IF n = 0 THEN disk0
  ELSE IF queue[n].operation = "forEach" THEN SeqStore(n - 1)
  ELSE primitive(queue[n], SeqStore(n - 1)).contents

\* What item i resolves with on that sequential map.
SeqResult(i) == xform(queue[i], primitive(queue[i], SeqStore(i - 1)).result)

\* C2 (as claimed): every get, has and count resolves with the value the
\* sequential map gives for it at its place in submission order.
C2_ReadsMatchSequentialMap ==
  \A i \in 1..Len(queue) :
    (queue[i].operation \in {"get", "has", "count"} /\ handle[i].st = "fulfilled")
      => handle[i].val = SeqResult(i)

\* C4: after an isolated item's primitive failed, every item queued behind it
\* enters processItem, and one whose own primitive succeeds has its promise
\* fulfilled with that primitive's result.
C4_FailureDoesNotBlockLater ==
  \A i \in 1..MaxOps : \A j \in 1..MaxOps :
    i < j =>
      /\ (FailedIsolated(i) /\ j <= Len(queue)) ~> HasBegun(j)
      /\ (FailedIsolated(i) /\ j <= Len(queue) /\ f[j].st = "fulfilled")
           ~> (j <= Len(queue) /\ handle[j] = f[j])

\* The first item's request failed, the second item ran after it and its
\* promise is fulfilled with its primitive's result.
C4_Witness ==
  /\ FailedIsolated(1)
  /\ f[1] = Rejected(RequestError)
  /\ HasBegun(2)
  /\ f[2].st = "fulfilled"
  /\ handle[2] = f[2]

\* C5 (as claimed): the promise of every submitted item eventually settles.
C5_EveryHandleSettles ==
  \A i \in 1..MaxOps : (i <= Len(queue)) ~> Settled(i)

C9_SetThenGet ==
  \A i \in 1..Len(queue) : \A j \in 1..Len(queue) :
    ( /\ i < j
      /\ queue[i].operation = "set"
      /\ queue[j] = Item("get", queue[i].key, 0, 0)
      /\ \A m \in (i + 1)..(j - 1) :
           /\ queue[m].operation # "clear"
           /\ queue[m].operation \in {"set", "delete"} => queue[m].key # queue[i].key
      /\ handle[i].st = "fulfilled"
      /\ handle[j].st = "fulfilled" )
    => handle[j].val = StoredValue(queue[i].value)

\* C10 (as claimed): has(k) resolves with a boolean, true exactly when k has
\* an entry in the store, and count() with the number of entries.
C10_HasAndCount ==
  \A i \in 1..Len(queue) :
    (handle[i].st = "fulfilled" /\ LastBegun(i)) =>
      /\ queue[i].operation = "has" =>
           handle[i].val = BoolResult(queue[i].key \in KeysOf(disk))
      /\ queue[i].operation = "count" =>
           handle[i].val = IntResult(Cardinality(KeysOf(disk)))

\* C11 (as claimed): once the promise of a delete(k) is fulfilled, k has no
\* entry in the store and every other key has the value it had before (until
\* a later item begins); the has(k) submitted next resolves false and the get(k)
\* submitted next resolves with the absent-key value; a delete of a key that
\* has no entry is fulfilled as well.
C11_DeleteRemovesKey ==
  \A i \in 1..Len(queue) :
    queue[i].operation = "delete" =>
      /\ (handle[i].st = "fulfilled" /\ LastBegun(i)) =>
           disk = [SeqStore(i - 1) EXCEPT ![queue[i].key] = 0]
      /\ (handle[i].st = "fulfilled" /\ i < Len(queue)
            /\ handle[i + 1].st = "fulfilled") =>
           /\ queue[i + 1] = Item("has", queue[i].key, 0, 0) =>
                handle[i + 1].val = BoolResult(FALSE)
           /\ queue[i + 1] = Item("get", queue[i].key, 0, 0) =>
                handle[i + 1].val = Undefined
      /\ (f[i].st = "fulfilled" /\ phase[i] = "done") => handle[i].st = "fulfilled"

\* C12 (as claimed): once the promise of a clear() is fulfilled the store is
\* empty (until a later item begins), whether or not it was empty before: the
\* count() submitted next resolves 0 and the has(k) submitted next resolves
\* false for every k.
C12_ClearEmptiesStore ==
  \A i \in 1..Len(queue) :
    queue[i].operation = "clear" =>
      /\ (handle[i].st = "fulfilled" /\ LastBegun(i)) => disk = EmptyStore
      /\ (handle[i].st = "fulfilled" /\ i < Len(queue)
            /\ handle[i + 1].st = "fulfilled") =>
           /\ queue[i + 1].operation = "count" => handle[i + 1].val = IntResult(0)
           /\ queue[i + 1].operation = "has" => handle[i + 1].val = BoolResult(FALSE)

\* C13 (as claimed): a set whose primitive succeeded fulfils its promise with
\* no payload.
C13_SetFulfilsWithoutPayload ==
  \A i \in 1..Len(queue) :
    (queue[i].operation = "set" /\ f[i].st = "fulfilled"
      /\ handle[i].st = "fulfilled") => handle[i].val = Undefined

\* C14 (as claimed): every invocation of the callback a caller gave to forEach
\* receives the entry's value and key as its first two arguments, in that
\* order, and has the scope the caller supplied as its receiver.
C14_VisitArgumentsAndScope ==
  \A i \in 1..Len(queue) :
    \A n \in 1..Len(calls[i]) :
      /\ calls[i][n].args[2] = KeyResult(visited[i][n])
      /\ calls[i][n].args[1] \in {StoredValue(v) : v \in 1..2}
      /\ calls[i][n].this = scopeOf(queue[i])

\* C15: at most one item's request is pending at any time, and when an item
\* has entered processItem every item submitted before it has settled its
\* primitive (for a forEach: the cursor ran to the end or the callback threw),
\* so no two unsettled items use the cached transaction and store; this
\* includes items submitted while a forEach is iterating.
C15_OneInFlight ==
  /\ Cardinality({i \in 1..Len(queue) : request[i].st = "pending"}) <= 1
  /\ \A i \in 1..Len(queue) : \A j \in 1..Len(queue) :
       (i < j /\ HasBegun(j)) =>
         /\ f[i].st # "pending"
         /\ request[i].st # "pending"
         /\ handle[i].st # "pending"

\* A forEach has visited the first of two entries and its cursor request is
\* pending again, in the task of the callback; a second item has been
\* submitted and has not entered processItem.
C15_Witness ==
  /\ Len(queue) = 2
  /\ queue[1].operation = "forEach"
  /\ Len(visited[1]) = 1
  /\ request[1].st = "pending"
  /\ active = request[1].tx
  /\ ~HasBegun(2)

\* The transactions this layer has opened that the engine has not finished
\* (neither committed nor aborted).
LiveTransactions == {t \in 1..nextTx : txState[t] = "live"}

\* C16 (as claimed): at most one transaction opened by this layer is live at
\* any time.
C16_OneLiveTransaction == Cardinality(LiveTransactions) <= 1

\* C17 (as claimed): a cached transaction that has silently gone stale is
\* replaced before it is reused, so every item that entered processItem has
\* placed its request, and no item's primitive and no caller's promise carries
\* the error of a request placed on an inactive transaction.
C17_StaleSessionNeverSurfaces ==
  \A i \in 1..Len(queue) :
    /\ HasBegun(i) => request[i].st # "none"
    /\ f[i].val # InactiveError
    /\ handle[i].val # InactiveError

\* C18: indexedDB.open is called at most once, however many items are
\* submitted and however their steps interleave; the promise open() hands to
\* every runNext never changes once it has settled, and every item that
\* entered processItem saw it fulfilled with the same open event.
C18_SingleOpen ==
  /\ [](opens <= 1)
  /\ [](openCalled <=> opens = 1)
  /\ [][openPromise.st # "pending" => openPromise' = openPromise]_vars
  /\ [](\A i \in 1..Len(queue) : HasBegun(i) => openPromise = Fulfilled(OpenEvent))

\* Two items have called open() and entered processItem after a single call
\* of indexedDB.open.
C18_Witness ==
  /\ Len(began) = 2
  /\ opens = 1
  /\ openPromise = Fulfilled(OpenEvent)

\* C19: whenever an item has entered processItem, a transaction has been
\* opened or a request placed, the open request has succeeded, openPromise is
\* fulfilled, db is set and the object store exists (created by the upgrade
\* step when the database did not have it).
C19_ReadyBeforeProcessItem ==
  (\/ Len(began) > 0
   \/ nextTx > 0
   \/ \E i \in 1..Len(queue) : request[i].st # "none")
  => /\ openRequest = "success"
     /\ openPromise = Fulfilled(OpenEvent)
     /\ db = 1
     /\ provisioned

\* The database had no object store at first; the upgrade step created it,
\* the open succeeded and the first item's request is pending.
C19_Witness ==
  /\ disk0 = EmptyStore
  /\ provisioned
  /\ Len(began) = 1
  /\ request[1].st = "pending"

\* C20 (as claimed): between the completion of an item's primitive and the
\* entry of the next item into processItem a timer fires, for isolated items
\* and forEach alike.
C20_TimerBetweenOperations ==
  [][(Len(began') > Len(began) /\ Len(began) > 0) => yielded]_vars

\* C21: the transform is applied to the result of a primitive that succeeded
\* and to nothing else: f of a has whose request succeeded holds a boolean,
\* while f of an item whose primitive failed holds the failure reason itself,
\* and that reason is what the caller's promise settles with.
C21_TransformOnlyOnSuccess ==
  \A i \in 1..Len(queue) :
    /\ f[i].st = "rejected" =>
         /\ f[i].val \in {RequestError, InactiveError, VisitError}
         /\ Settled(i) => handle[i].val = f[i].val
    /\ (f[i].st = "fulfilled" /\ queue[i].operation = "has") =>
         f[i].val \in {BoolResult(TRUE), BoolResult(FALSE)}

\* The request of a has failed: f holds the request's error, not a boolean,
\* and the caller's promise has settled with that error.
C21_Witness ==
  /\ Len(queue) >= 1
  /\ queue[1].operation = "has"
  /\ f[1] = Rejected(RequestError)
  /\ Settled(1)
  /\ handle[1].val = RequestError

\* The connection's state, read from open()'s variables: Unopened until open()
\* is first called, Opening while the engine's open request is in flight,
\* Ready once the engine has answered it with success, Failed once it has
\* answered it with an error.
ConnectionState ==
  CASE ~openCalled -> "Unopened"
    [] openRequest = "pending" -> "Opening"
    [] openRequest = "success" -> "Ready"
    [] OTHER -> "Failed"

\* C22: the connection's state only moves forward: from Unopened to Opening,
\* from Opening to Ready or to Failed; Ready and Failed are never left, no
\* step brings Unopened back, and nothing resets openCalled, the settled
\* openPromise or db.
C22_ConnectionStateMonotonic ==
  /\ [][\/ ConnectionState' = ConnectionState
        \/ ConnectionState = "Unopened" /\ ConnectionState' = "Opening"
        \/ ConnectionState = "Opening" /\ ConnectionState' \in {"Ready", "Failed"}]_vars
  /\ [][(openCalled => openCalled') /\ (db = 1 => db' = 1)]_vars
  /\ [](ConnectionState = "Ready" => openPromise = Fulfilled(OpenEvent))

\* The connection is Ready, the first item is done and the second has called
\* open() again: the state is still Ready.
C22_Witness ==
  /\ ConnectionState = "Ready"
  /\ Len(queue) = 2
  /\ phase[1] = "done"
  /\ phase[2] = "opening"

\* C23 (as claimed): whenever clearTrans runs for an event of a transaction
\* (its complete or abort event, or the error event of a request placed on
\* it), the cached transaction, if there is one, is the transaction the event
\* belongs to.
C23_LateEventSparesNewerSession ==
  [][/\ \A t \in 1..MaxOps :
          (txEvent[t] # "none" /\ txEvent'[t] = "none") => trans \in {0, t}
     /\ \A i \in 1..Len(queue) :
          (fails' # fails /\ request[i].st = "pending") => trans \in {0, request[i].tx}]_vars

\* C24 (as claimed): once the promise of a set whose request succeeded is
\* fulfilled, the value stays stored under its key as long as no set, delete
\* or clear submitted after it has entered processItem, whatever happens to
\* later items and to the transaction.
C24_ReportedWriteStays ==
  \A i \in 1..Len(queue) :
    ( /\ queue[i].operation = "set"
      /\ f[i].st = "fulfilled"
      /\ handle[i].st = "fulfilled"
      /\ \A j \in (i + 1)..Len(queue) :
           HasBegun(j) => queue[j].operation \notin {"set", "delete", "clear"} )
    => disk[queue[i].key] = queue[i].value

\* The operations that only read the store.
ReadOperations == {"get", "has", "count", "forEach"}

\* C25 (as claimed): no step of a get, has, count or forEach changes the
\* contents of the store, neither its entry into processItem nor the success
\* or the failure of its request nor a visit whose callback throws; while
\* only such items have been submitted the store is as it was at the start.
C25_ReadsLeaveStoreUnchanged ==
  /\ [][\A i \in 1..Len(queue) :
          ( /\ queue[i].operation \in ReadOperations
            /\ \/ request'[i] # request[i]
               \/ f'[i] # f[i]
               \/ visited'[i] # visited[i] )
          => disk' = disk]_vars
  /\ []((\A i \in 1..Len(queue) : queue[i].operation \in ReadOperations)
         => disk = disk0)
====
